---- MODULE Spec2Model ----
(***************************************************************************)
(* Model of sarif2html.py: SarifToHtmlConverter (load_sarif,               *)
(* get_statistics, categorize_results, escape_html, get_location_info,     *)
(* generate_html) and main.                                                *)
(*                                                                         *)
(* JSON values are tagged records [t, v]:                                  *)
(*   null  [t |-> "null", v |-> 0]                                         *)
(*   str   [t |-> "str",  v |-> sequence of one-character strings]         *)
(*   int   [t |-> "int",  v |-> integer]                                   *)
(*   list  [t |-> "list", v |-> sequence of JSON values]                   *)
(*   obj   [t |-> "obj",  v |-> function from key to JSON value]           *)
(* A Python exception raised while evaluating an expression is the value   *)
(* Raise, which every operation on it propagates.                          *)
(***************************************************************************)
EXTENDS Integers, Sequences, FiniteSets, TLC

VARIABLES
  pc,             \* where main is
  argv,           \* sys.argv
  file,           \* the input file: its name and what reading it gives
  disk,           \* whether the output file can be opened and written
  now,            \* datetime.now() as formatted in the header
  data,           \* self.data
  results,        \* self.results
  notifications,  \* self.notifications
  stats,          \* what get_statistics returned to generate_html
  categorized,    \* what categorize_results returned to generate_html
  html_content,   \* the report text generate_html built
  html_file,      \* what generate_html returned to main
  outfile,        \* the output file
  stderr,         \* the diagnostics printed to standard error
  calls,          \* the methods of the converter main has invoked
  exitStatus      \* the process exit status, -1 while running

vars == <<pc, argv, file, disk, now, data, results, notifications, stats,
          categorized, html_content, html_file, outfile, stderr, calls,
          exitStatus>>

-----------------------------------------------------------------------------
(* JSON values and the Python operations the program applies to them *)

Null == [t |-> "null", v |-> 0]

Raise == [t |-> "raise", v |-> 0]

Str(s) == [t |-> "str", v |-> s]

Num(n) == [t |-> "int", v |-> n]

List(s) == [t |-> "list", v |-> s]

Obj(r) == [t |-> "obj", v |-> r]

EmptyObj == Obj(<<>>)

EmptyList == List(<<>>)

IsRaise(j) == j.t = "raise"

\* bool(x): None, '', 0, [] and {} are false
Truthy(j) ==
  CASE j.t = "null" -> FALSE
    [] j.t = "str" -> Len(j.v) > 0
    [] j.t = "int" -> j.v # 0
    [] j.t = "list" -> Len(j.v) > 0
    [] j.t = "obj" -> DOMAIN j.v # {}

\* hash(x) succeeds: lists and dicts are unhashable
Hashable(j) == j.t \in {"null", "str", "int"}

\* x.get(key, default): only a dict has .get
GetD(j, key, default) ==
  IF j.t = "obj"
    THEN IF key \in DOMAIN j.v THEN j.v[key] ELSE default
    ELSE Raise

\* x.get(key)
Get(j, key) == GetD(j, key, Null)

\* x[key] with a string key
Subscript(j, key) ==
  IF j.t = "obj" /\ key \in DOMAIN j.v THEN j.v[key] ELSE Raise

\* x[0]
Index0(j) ==
  CASE j.t = "list" -> IF Len(j.v) > 0 THEN j.v[1] ELSE Raise
    [] j.t = "str" -> IF Len(j.v) > 0 THEN Str(<<j.v[1]>>) ELSE Raise
    [] OTHER -> Raise

\* len(x): None and int have no len()
PyLen(j) ==
  CASE j.t \in {"list", "str"} -> Len(j.v)
    [] j.t = "obj" -> Cardinality(DOMAIN j.v)
    [] OTHER -> -1

\* the items a for loop visits: a list's elements, a string's characters
Iter(j) ==
  CASE j.t = "list" -> j.v
    [] j.t = "str" -> [i \in 1..Len(j.v) |-> Str(<<j.v[i]>>)]

Iterable(j) == j.t \in {"list", "str"}

DigitChars == <<"0", "1", "2", "3", "4", "5", "6", "7", "8", "9">>

RECURSIVE Digits(_)
Digits(n) ==
  IF n < 10
    THEN <<DigitChars[n + 1]>>
    ELSE Digits(n \div 10) \o <<DigitChars[(n % 10) + 1]>>

\* str(x) for a string, a non-negative integer or None
PyStr(j) ==
  CASE j.t = "str" -> j.v
    [] j.t = "int" -> Digits(j.v)
    [] j.t = "null" -> <<"N", "o", "n", "e">>

-----------------------------------------------------------------------------
(* String literals of the program *)

LvError == <<"e", "r", "r", "o", "r">>

LvWarning == <<"w", "a", "r", "n", "i", "n", "g">>

LvNote == <<"n", "o", "t", "e">>

Unknown == <<"u", "n", "k", "n", "o", "w", "n">>

QMark == <<"?">>

ReportSuffix == <<"_", "r", "e", "p", "o", "r", "t", ".", "h", "t", "m", "l">>

-----------------------------------------------------------------------------
(* escape_html *)

\* html.escape(s, quote=True), one character at a time
EscapeChar(c) ==
  CASE c = "&" -> <<"&", "a", "m", "p", ";">>
    [] c = "<" -> <<"&", "l", "t", ";">>
    [] c = ">" -> <<"&", "g", "t", ";">>
    [] c = "\"" -> <<"&", "q", "u", "o", "t", ";">>
    [] c = "'" -> <<"&", "#", "x", "2", "7", ";">>
    [] OTHER -> <<c>>

RECURSIVE HtmlEscape(_)
HtmlEscape(s) ==
  IF s = <<>> THEN <<>> ELSE EscapeChar(Head(s)) \o HtmlEscape(Tail(s))

\* escape_html(text): '' for a false value, html.escape(str(text)) otherwise
escape_html(text) ==
  IF ~Truthy(text) THEN <<>> ELSE HtmlEscape(PyStr(text))

\* an f-string field {value} with no escaping: str(value)
Format(j) == PyStr(j)

-----------------------------------------------------------------------------
(* get_statistics *)

\* d[k] += 1 on a defaultdict(int); entries keep insertion order
DictIncr(d, k) ==
  IF \E i \in 1..Len(d) : d[i].key = k
    THEN [i \in 1..Len(d) |->
            IF d[i].key = k THEN [d[i] EXCEPT !.count = @ + 1] ELSE d[i]]
    ELSE Append(d, [key |-> k, count |-> 1])

\* FirstUri reading the last location instead of the first
LastUri(result) ==
  LET locs == Subscript(result, "locations")
      last == IF locs.t = "list" /\ Len(locs.v) > 0
                THEN locs.v[Len(locs.v)] ELSE Index0(locs)
  IN  Get(GetD(GetD(last, "physicalLocation", EmptyObj),
               "artifactLocation", EmptyObj),
          "uri")

\* the uri expression of the "Collect unique files" block
FirstUri(result) ==
  Get(GetD(GetD(Index0(Subscript(result, "locations")),
                "physicalLocation", EmptyObj),
           "artifactLocation", EmptyObj),
      "uri")

StatsStart(rs) ==
  [raised |-> FALSE, total |-> PyLen(rs), errors |-> 0, warnings |-> 0,
   notes |-> 0, files |-> {}, rules |-> {}, by_level |-> <<>>,
   by_file |-> <<>>]

\* CountLevel with a final else branch that counts the finding as a warning
CountLevelElseWarning(st, level) ==
  IF level = Str(LvError) THEN [st EXCEPT !.errors = @ + 1]
  ELSE IF level = Str(LvNote) THEN [st EXCEPT !.notes = @ + 1]
  ELSE [st EXCEPT !.warnings = @ + 1]

\* the top-level error/warning/note tally of one loop iteration
CountLevel(st, level) ==
  IF level = Str(LvError) THEN [st EXCEPT !.errors = @ + 1]
  ELSE IF level = Str(LvWarning) THEN [st EXCEPT !.warnings = @ + 1]
  ELSE IF level = Str(LvNote) THEN [st EXCEPT !.notes = @ + 1]
  ELSE st

\* the "Collect unique files" block of one loop iteration
CountFile(st, result) ==
  LET locs == Get(result, "locations")
      uri == FirstUri(result)
  IN  IF IsRaise(locs) THEN [st EXCEPT !.raised = TRUE]
      ELSE IF ~Truthy(locs) THEN st
      ELSE IF IsRaise(uri) THEN [st EXCEPT !.raised = TRUE]
      ELSE IF ~Truthy(uri) THEN st
      ELSE IF ~Hashable(uri) THEN [st EXCEPT !.raised = TRUE]
      ELSE [st EXCEPT !.files = @ \cup {uri},
                      !.by_file = DictIncr(@, uri)]

\* the "Collect unique rules" block of one loop iteration
CountRule(st, result) ==
  LET rule == Get(result, "ruleId")
  IN  IF st.raised THEN st
      ELSE IF IsRaise(rule) THEN [st EXCEPT !.raised = TRUE]
      ELSE IF ~Truthy(rule) THEN st
      ELSE IF ~Hashable(rule) THEN [st EXCEPT !.raised = TRUE]
      ELSE [st EXCEPT !.rules = @ \cup {rule}]

\* StatsStep with 'note' as the level of a finding that has none
StatsStepDefaultNote(st, result) ==
  LET level == GetD(result, "level", Str(LvNote))
  IN  IF st.raised THEN st
      ELSE IF IsRaise(level) \/ ~Hashable(level)
        THEN [st EXCEPT !.raised = TRUE]
      ELSE LET s1 == CountLevel([st EXCEPT !.by_level = DictIncr(@, level)],
                                level)
               s2 == CountFile(s1, result)
           IN  CountRule(s2, result)

\* one iteration of "for result in self.results"
StatsStep(st, result) ==
  LET level == GetD(result, "level", Str(LvWarning))
  IN  IF st.raised THEN st
      ELSE IF IsRaise(level) \/ ~Hashable(level)
        THEN [st EXCEPT !.raised = TRUE]
      ELSE LET s1 == CountLevel([st EXCEPT !.by_level = DictIncr(@, level)],
                                level)
               s2 == CountFile(s1, result)
           IN  CountRule(s2, result)

RECURSIVE StatsLoop(_, _)
StatsLoop(st, rs) ==
  IF rs = <<>> THEN st ELSE StatsLoop(StatsStep(st, Head(rs)), Tail(rs))

\* get_statistics() on self.results; raised tells an exception escaped
get_statistics(rs) ==
  LET st == StatsLoop(StatsStart(rs), Iter(rs))
  IN  [st EXCEPT !.files = Cardinality(@), !.rules = Cardinality(@)]

-----------------------------------------------------------------------------
(* categorize_results *)

CatStart ==
  <<[key |-> Str(LvError), items |-> <<>>],
    [key |-> Str(LvWarning), items |-> <<>>],
    [key |-> Str(LvNote), items |-> <<>>]>>

\* CatAppend putting the finding at the front of its group
CatAppendFront(cat, level, result) ==
  IF \E i \in 1..Len(cat) : cat[i].key = level
    THEN [i \in 1..Len(cat) |->
            IF cat[i].key = level
              THEN [cat[i] EXCEPT !.items = <<result>> \o @]
              ELSE cat[i]]
    ELSE Append(cat, [key |-> level, items |-> <<result>>])

\* categorized[level].append(result), creating the group when missing
CatAppend(cat, level, result) ==
  IF \E i \in 1..Len(cat) : cat[i].key = level
    THEN [i \in 1..Len(cat) |->
            IF cat[i].key = level
              THEN [cat[i] EXCEPT !.items = Append(@, result)]
              ELSE cat[i]]
    ELSE Append(cat, [key |-> level, items |-> <<result>>])

\* CatStep with 'note' as the level of a finding that has none
CatStepDefaultNote(c, result) ==
  LET level == GetD(result, "level", Str(LvNote))
  IN  IF c.raised THEN c
      ELSE IF IsRaise(level) \/ ~Hashable(level)
        THEN [c EXCEPT !.raised = TRUE]
      ELSE [c EXCEPT !.groups = CatAppend(@, level, result)]

\* one iteration of "for result in self.results"
CatStep(c, result) ==
  LET level == GetD(result, "level", Str(LvWarning))
  IN  IF c.raised THEN c
      ELSE IF IsRaise(level) \/ ~Hashable(level)
        THEN [c EXCEPT !.raised = TRUE]
      ELSE [c EXCEPT !.groups = CatAppend(@, level, result)]

RECURSIVE CatLoop(_, _)
CatLoop(c, rs) ==
  IF rs = <<>> THEN c ELSE CatLoop(CatStep(c, Head(rs)), Tail(rs))

\* categorize_results() on self.results
categorize_results(rs) ==
  CatLoop([raised |-> FALSE, groups |-> CatStart], Iter(rs))

\* categorized.get(level, [])
CatGet(groups, level) ==
  IF \E i \in 1..Len(groups) : groups[i].key = level
    THEN groups[CHOOSE i \in 1..Len(groups) : groups[i].key = level].items
    ELSE <<>>

-----------------------------------------------------------------------------
(* get_location_info *)

LocDefaults ==
  [file |-> Str(Unknown), start_line |-> Str(QMark),
   start_column |-> Str(QMark), end_line |-> Str(QMark),
   end_column |-> Str(QMark), snippet |-> Str(<<>>)]

\* the dict built in the try block; any field may be Raise
LocTry(result) ==
  LET location == Index0(GetD(result, "locations", List(<<EmptyObj>>)))
      physical == GetD(location, "physicalLocation", EmptyObj)
      artifact == GetD(physical, "artifactLocation", EmptyObj)
      region == GetD(physical, "region", EmptyObj)
  IN  [file |-> GetD(artifact, "uri", Str(Unknown)),
       start_line |-> GetD(region, "startLine", Str(QMark)),
       start_column |-> GetD(region, "startColumn", Str(QMark)),
       end_line |-> GetD(region, "endLine", Str(QMark)),
       end_column |-> GetD(region, "endColumn", Str(QMark)),
       snippet |-> GetD(GetD(region, "snippet", EmptyObj), "text", Str(<<>>))]

\* get_location_info(result): the bare except returns the defaults
get_location_info(result) ==
  LET info == LocTry(result)
  IN  IF \E f \in DOMAIN info : IsRaise(info[f]) THEN LocDefaults ELSE info

-----------------------------------------------------------------------------
(* generate_html: the report is the sequence of the pieces appended to      *)
(* html_content, each piece being the template text it comes from and the  *)
(* values formatted into it                                                 *)

Piece(name, args) == [frag |-> name, args |-> args]

Ok(h) == [raised |-> FALSE, html |-> h]

Raised == [raised |-> TRUE, html |-> <<>>]

\* a followed by b, unless an exception ended a
Then(a, b) ==
  IF a.raised THEN a
  ELSE IF b.raised THEN b
  ELSE Ok(a.html \o b.html)

\* the opening f-string: title, header and the six statistics cards
RenderHead(name, ts, st) ==
  Ok(<<Piece("head", <<escape_html(Str(name)), escape_html(Str(name)), ts,
                       Digits(st.total), Digits(st.errors),
                       Digits(st.warnings), Digits(st.notes),
                       Digits(st.files), Digits(st.rules)>>)>>)

NotifText(notif) ==
  GetD(GetD(notif, "message", EmptyObj), "text", Str(<<>>))

RECURSIVE RenderNotifItems(_)
RenderNotifItems(ns) ==
  IF ns = <<>> THEN Ok(<<>>)
  ELSE LET text == NotifText(Head(ns))
       IN  IF IsRaise(text) THEN Raised
           ELSE Then(Ok(<<Piece("notification_item", <<escape_html(text)>>)>>),
                     RenderNotifItems(Tail(ns)))

\* the "Add notifications section if any" block
RenderNotifications(notifs) ==
  IF ~Truthy(notifs) THEN Ok(<<>>)
  ELSE Then(Ok(<<Piece("notifications_open", <<Digits(PyLen(notifs))>>)>>),
       Then(RenderNotifItems(Iter(notifs)),
            Ok(<<Piece("notifications_close", <<>>)>>)))

RECURSIVE RenderTagItems(_)
RenderTagItems(ts) ==
  IF ts = <<>> THEN <<>>
  ELSE <<Piece("tag", <<escape_html(Head(ts))>>)>> \o RenderTagItems(Tail(ts))

\* the "Tags" block of one finding
RenderTags(tags) ==
  IF ~Truthy(tags) THEN Ok(<<>>)
  ELSE IF ~Iterable(tags) THEN Raised
  ELSE Ok(<<Piece("tags_open", <<>>)>> \o RenderTagItems(Iter(tags))
          \o <<Piece("tags_close", <<>>)>>)

\* the "Code snippet" block of one finding
RenderSnippet(loc_info) ==
  IF Truthy(loc_info.snippet)
    THEN Ok(<<Piece("result_snippet", <<escape_html(loc_info.snippet)>>)>>)
    ELSE Ok(<<>>)

\* the "Location information" block of one finding
RenderLocation(loc_info) ==
  Ok(<<Piece("result_location",
             <<escape_html(loc_info.file), Format(loc_info.start_line),
               Format(loc_info.start_column)>>)>>)

\* one iteration of "for idx, result in enumerate(results_by_level, 1)"
RenderResult(level, result) ==
  LET loc_info == get_location_info(result)
      rule_id == GetD(result, "ruleId", Str(Unknown))
      message == GetD(GetD(result, "message", EmptyObj), "text", Str(<<>>))
      tags == GetD(GetD(result, "properties", EmptyObj), "tags", EmptyList)
  IN  IF IsRaise(rule_id) \/ IsRaise(message) \/ IsRaise(tags) THEN Raised
      ELSE Then(Ok(<<Piece("result_head",
                           <<level, escape_html(message),
                             escape_html(rule_id)>>)>>),
           Then(RenderLocation(loc_info),
           Then(RenderSnippet(loc_info),
           Then(RenderTags(tags),
                Ok(<<Piece("result_close", <<>>)>>)))))

RECURSIVE RenderResults(_, _)
RenderResults(level, rs) ==
  IF rs = <<>> THEN Ok(<<>>)
  ELSE Then(RenderResult(level, Head(rs)), RenderResults(level, Tail(rs)))

\* one iteration of "for level in ['error', 'warning', 'note']"
RenderLevel(groups, level) ==
  LET results_by_level == CatGet(groups, Str(level))
  IN  IF results_by_level = <<>> THEN Ok(<<>>)
      ELSE Then(Ok(<<Piece("section_open",
                           <<level, Digits(Len(results_by_level))>>)>>),
           Then(RenderResults(level, results_by_level),
                Ok(<<Piece("section_close", <<>>)>>)))

\* RenderLevels walking the levels in the order warning, error, note
RenderLevelsWarningFirst(groups) ==
  Then(RenderLevel(groups, LvWarning),
  Then(RenderLevel(groups, LvError),
       RenderLevel(groups, LvNote)))

\* the "Add results by severity" loop
RenderLevels(groups) ==
  Then(RenderLevel(groups, LvError),
  Then(RenderLevel(groups, LvWarning),
       RenderLevel(groups, LvNote)))

\* InsertByCount putting an entry before the entries of equal count
InsertBeforeEqual(sorted, e) ==
  LET before == SelectSeq(sorted, LAMBDA x : x.count > e.count)
      after == SelectSeq(sorted, LAMBDA x : x.count <= e.count)
  IN  before \o <<e>> \o after

\* where sorted(..., key=count, reverse=True) puts the next entry: after
\* every entry whose count is not smaller, so equal counts keep their order
InsertByCount(sorted, e) ==
  LET before == SelectSeq(sorted, LAMBDA x : x.count >= e.count)
      after == SelectSeq(sorted, LAMBDA x : x.count < e.count)
  IN  before \o <<e>> \o after

RECURSIVE SortByCount(_, _)
SortByCount(sorted, rest) ==
  IF rest = <<>> THEN sorted
  ELSE SortByCount(InsertByCount(sorted, Head(rest)), Tail(rest))

\* sorted(stats['by_file'].items(), key=lambda x: x[1], reverse=True)
SortedByFile(by_file) == SortByCount(<<>>, by_file)

RECURSIVE RenderFileRows(_)
RenderFileRows(rows) ==
  IF rows = <<>> THEN <<>>
  ELSE <<Piece("file_row", <<escape_html(Head(rows).key),
                             Digits(Head(rows).count)>>)>>
       \o RenderFileRows(Tail(rows))

\* the "Add file summary table" block
RenderFileTable(st) ==
  IF st.by_file = <<>> THEN Ok(<<>>)
  ELSE Ok(<<Piece("table_open", <<>>)>>
          \o RenderFileRows(SortedByFile(st.by_file))
          \o <<Piece("table_close", <<>>)>>)

RenderFooter == Ok(<<Piece("footer", <<>>)>>)

\* html_content as generate_html builds it from the statistics and groups
Render(name, ts, st, groups, notifs) ==
  Then(RenderHead(name, ts, st),
  Then(RenderNotifications(notifs),
  Then(RenderLevels(groups),
  Then(RenderFileTable(st),
       RenderFooter))))

-----------------------------------------------------------------------------
(* The inputs: input files, command lines and the state of the disk *)

\* longest findings sequence of the level and location documents
MaxFindings == 4

\* longest findings sequence of the markup and malformed documents
MaxMixed == 2

RECURSIVE SeqsUpTo(_, _)
SeqsUpTo(S, n) ==
  IF n = 0 THEN {<<>>}
  ELSE LET shorter == SeqsUpTo(S, n - 1)
       IN  shorter \cup {Append(q, x) : q \in {r \in shorter : Len(r) = n - 1},
                                        x \in S}

FileA == <<"a", ".", "c">>

FileB == <<"b", ".", "c">>

LvOther == <<"i", "n", "f", "o">>

Markup == <<"<", "b", ">">>

Quoted == <<"&", "\"", "'">>

Plain == <<"o", "k">>

Region(r) == Obj([physicalLocation |-> Obj([region |-> Obj(r)])])

Loc(uri) ==
  Obj([physicalLocation |-> Obj([artifactLocation |-> Obj([uri |-> Str(uri)])])])

WithLevel(lv) == Obj([level |-> Str(lv)])

\* findings that differ in level only, the first one with no field at all
LevelFindings ==
  {EmptyObj, WithLevel(LvError), WithLevel(LvWarning), WithLevel(LvNote),
   WithLevel(LvOther)}

\* findings that differ in their locations
LocationFindings ==
  {EmptyObj,
   Obj([locations |-> EmptyList]),
   Obj([locations |-> List(<<Loc(FileA)>>), level |-> Str(LvError)]),
   Obj([locations |-> List(<<Loc(FileB)>>), ruleId |-> Str(Plain)]),
   Obj([locations |-> List(<<Loc(FileA), Loc(FileB)>>)]),
   Obj([locations |-> List(<<Loc(<<>>), Loc(FileB)>>)]),
   Obj([locations |-> List(<<Region([startLine |-> Num(12)]), Loc(FileA)>>)])}

\* findings carrying text in one field each: markup, quotes, plain text
TextFindings ==
  UNION {
    {Obj([message |-> Obj([text |-> Str(x)])]),
     Obj([ruleId |-> Str(x), level |-> Str(LvError)]),
     Obj([locations |-> List(<<Loc(x)>>), level |-> Str(LvNote)]),
     Obj([locations |-> List(<<Region([snippet |-> Obj([text |-> Str(x)])])>>)]),
     Obj([properties |-> Obj([tags |-> List(<<Str(Plain), Str(x)>>)])]),
     Obj([locations |-> List(<<Region([startLine |-> Str(x)])>>)]),
     Obj([locations |-> List(<<Region([startColumn |-> Str(x),
                                       startLine |-> Num(7)])>>)])}
    : x \in {Markup, Quoted, Plain}}

\* findings with a nested field that is null or of the wrong type
MalformedFindings ==
  {Obj([locations |-> Null]),
   Obj([locations |-> List(<<Null>>)]),
   Obj([locations |-> List(<<Obj([physicalLocation |-> Null])>>)]),
   Obj([locations |-> List(<<Obj([physicalLocation |->
                                    Obj([artifactLocation |-> Null])])>>)]),
   Obj([locations |-> List(<<Obj([physicalLocation |->
                                    Obj([artifactLocation |-> Str(FileA)])])>>)]),
   Obj([locations |-> List(<<Obj([physicalLocation |->
                                    Obj([region |-> Null])])>>)]),
   Obj([locations |-> List(<<Region([snippet |-> Null])>>)]),
   Obj([message |-> Null]),
   Obj([message |-> Str(Plain)]),
   Obj([properties |-> Null]),
   Obj([properties |-> Obj([tags |-> Null])]),
   Obj([properties |-> Obj([tags |-> Num(5)])]),
   Obj([level |-> Null]),
   Obj([level |-> EmptyList]),
   Obj([ruleId |-> Null]),
   Obj([ruleId |-> List(<<Str(Plain)>>)]),
   Obj([level |-> Str(LvNote), locations |-> List(<<Loc(FileB)>>)])}

Notification(x) == Obj([message |-> Obj([text |-> Str(x)])])

NotificationLists ==
  {EmptyList, List(<<Notification(Plain)>>),
   List(<<Notification(Markup), EmptyObj>>)}

RunOf(rs) == Obj([results |-> List(rs)])

Document(runs) == Obj([runs |-> List(runs)])

Json(d) == [t |-> "json", v |-> d]

\* documents of one run holding findings only
FindingDocuments ==
  {Document(<<RunOf(rs)>>) :
     rs \in SeqsUpTo(LevelFindings, MaxFindings)
            \cup SeqsUpTo(LocationFindings, MaxFindings)
            \cup SeqsUpTo(TextFindings, MaxMixed)
            \cup SeqsUpTo(MalformedFindings, MaxMixed)}

\* a run with notifications and findings of every kind of level
MixedRun ==
  Obj([results |->
         List(<<Obj([level |-> Str(LvNote), locations |-> List(<<Loc(FileB)>>)]),
                WithLevel(LvOther),
                Obj([ruleId |-> Str(Plain)]),
                Obj([level |-> Str(LvError), locations |-> List(<<Loc(FileA)>>)]),
                WithLevel(LvWarning)>>),
       toolExecutionNotifications |-> List(<<Notification(Plain)>>)])

SomeRuns ==
  {Obj([results |-> List(<<WithLevel(LvError)>>),
        toolExecutionNotifications |-> ns]) : ns \in NotificationLists}
  \cup {RunOf(<<WithLevel(LvNote), WithLevel(LvNote)>>),
        Obj([toolExecutionNotifications |-> List(<<Notification(Quoted)>>)]),
        Obj([toolExecutionNotifications |->
               List(<<Obj([message |-> Null])>>)]),
        EmptyObj,
        Obj([results |-> Null]),
        MixedRun}

\* documents that differ in their runs, and JSON values that are no document
RunDocuments ==
  {EmptyObj, Obj([runs |-> Null]), Obj([runs |-> EmptyObj]),
   Obj([runs |-> List(<<Null>>)]), Obj([version |-> Str(Plain)]),
   EmptyList, Null, Str(Plain)}
  \cup {Document(rs) : rs \in SeqsUpTo(SomeRuns, 2)}

Unreadable == [t |-> "unreadable", v |-> 0]

NotJson == [t |-> "notjson", v |-> 0]

SarifName == <<"r", ".", "s", "a", "r", "i", "f">>

OddNames == {<<"<", "i", ">", ".", "j">>, <<"n", "o", "e", "x", "t">>}

Prog == <<"s", "2", "h">>

OutArg == <<"o", "u", "t", ".", "h", "t", "m", "l">>

Clock == {<<"0", "9", ":", "0", "0">>, <<"2", "3", ":", "5", "9">>}

\* no output file yet
NoFile == [exists |-> FALSE, path |-> <<>>, complete |-> FALSE,
           content |-> <<>>]

\* __init__, and the process before main runs
InitConverter ==
  /\ pc = "main"
  /\ data = Null
  /\ results = EmptyList
  /\ notifications = EmptyList
  /\ stats = Null
  /\ categorized = Null
  /\ html_content = <<>>
  /\ html_file = Null
  /\ outfile = NoFile
  /\ stderr = <<>>
  /\ calls = <<>>
  /\ exitStatus = -1

\* the usual command line on a working disk, over every findings document;
\* every command line, file name and disk failure over the run documents
Init ==
  /\ InitConverter
  /\ \/ /\ file \in [name : {SarifName}, content : {Json(d) : d \in FindingDocuments}]
        /\ argv = <<Prog, file.name>>
        /\ disk = "ok"
        /\ now \in {CHOOSE c \in Clock : TRUE}
     \/ /\ file \in [name : {SarifName} \cup OddNames,
                     content : {Unreadable, NotJson}
                               \cup {Json(d) : d \in RunDocuments}]
        /\ argv \in {<<Prog>>, <<Prog, file.name>>, <<Prog, file.name, OutArg>>}
        /\ disk \in {"ok", "open_fails", "write_fails"}
        /\ now \in Clock

-----------------------------------------------------------------------------
(* load_sarif *)

\* load_sarif reading the last run instead of the first
load_sarif_last_run(content, results0, notifications0) ==
  LET failed(dt, r0, n0) ==
        [ret |-> FALSE, data |-> dt, results |-> r0, notifications |-> n0]
      d == content.v
      runs == Get(d, "runs")
      run == IF runs.t = "list" /\ Len(runs.v) > 0
               THEN runs.v[Len(runs.v)] ELSE Index0(Subscript(d, "runs"))
      rs == GetD(run, "results", EmptyList)
      ns == GetD(run, "toolExecutionNotifications", EmptyList)
  IN  IF content.t # "json" THEN failed(Null, results0, notifications0)
      ELSE IF IsRaise(runs) THEN failed(d, results0, notifications0)
      ELSE IF ~Truthy(runs)
        THEN [ret |-> TRUE, data |-> d, results |-> results0,
              notifications |-> notifications0]
      ELSE IF IsRaise(rs) THEN failed(d, results0, notifications0)
      ELSE [ret |-> PyLen(rs) >= 0 /\ PyLen(ns) >= 0, data |-> d,
            results |-> rs, notifications |-> ns]

\* what load_sarif leaves in self.data, self.results, self.notifications
\* and returns, given the file content and the fields' previous values
load_sarif(content, results0, notifications0) ==
  LET failed(dt, r0, n0) ==
        [ret |-> FALSE, data |-> dt, results |-> r0, notifications |-> n0]
      d == content.v
      runs == Get(d, "runs")
      run == Index0(Subscript(d, "runs"))
      rs == GetD(run, "results", EmptyList)
      ns == GetD(run, "toolExecutionNotifications", EmptyList)
  IN  IF content.t # "json" THEN failed(Null, results0, notifications0)
      ELSE IF IsRaise(runs) THEN failed(d, results0, notifications0)
      ELSE IF ~Truthy(runs)
        THEN [ret |-> TRUE, data |-> d, results |-> results0,
              notifications |-> notifications0]
      ELSE IF IsRaise(rs) THEN failed(d, results0, notifications0)
      ELSE [ret |-> PyLen(rs) >= 0 /\ PyLen(ns) >= 0, data |-> d,
            results |-> rs, notifications |-> ns]

-----------------------------------------------------------------------------
(* main *)

\* Path(p).stem of a path with no directory part
Stem(name) ==
  LET dots == {i \in 2..Len(name) : name[i] = "."}
  IN  IF dots = {} THEN name
      ELSE SubSeq(name, 1, (CHOOSE i \in dots : \A k \in dots : k <= i) - 1)

\* output_file as generate_html uses it
OutputPath ==
  IF Len(argv) > 2 THEN argv[3] ELSE Stem(file.name) \o ReportSuffix

\* main with no argument: usage and sys.exit(1)
Usage ==
  /\ pc = "main"
  /\ Len(argv) < 2
  /\ pc' = "exited"
  /\ exitStatus' = 1
  /\ UNCHANGED <<argv, file, disk, now, data, results, notifications, stats,
                 categorized, html_content, html_file, outfile, stderr,
                 calls>>

\* converter.load_sarif() as main calls it
LoadSarif ==
  /\ pc = "main"
  /\ Len(argv) >= 2
  /\ LET r == load_sarif(file.content, results, notifications)
     IN  /\ data' = r.data
         /\ results' = r.results
         /\ notifications' = r.notifications
         /\ stderr' = IF r.ret THEN stderr ELSE Append(stderr, "load_error")
         /\ pc' = IF r.ret THEN "loaded" ELSE "load_failed"
  /\ calls' = Append(calls, "load_sarif")
  /\ UNCHANGED <<argv, file, disk, now, stats, categorized, html_content,
                 html_file, outfile, exitStatus>>

\* main going on to generate_html after a failed load
ExitLoadFailedIgnored ==
  /\ pc = "load_failed"
  /\ pc' = "loaded"
  /\ UNCHANGED <<argv, file, disk, now, data, results, notifications, stats,
                 categorized, html_content, html_file, outfile, stderr,
                 calls, exitStatus>>

\* "if not converter.load_sarif(): sys.exit(1)"
ExitLoadFailed ==
  /\ pc = "load_failed"
  /\ pc' = "exited"
  /\ exitStatus' = 1
  /\ UNCHANGED <<argv, file, disk, now, data, results, notifications, stats,
                 categorized, html_content, html_file, outfile, stderr,
                 calls>>

\* converter.generate_html(output_file) as main calls it
GenerateHtml ==
  /\ pc = "loaded"
  /\ calls' = Append(calls, "generate_html")
  /\ LET st == get_statistics(results)
         cat == categorize_results(results)
         page == IF st.raised \/ cat.raised THEN Raised
                 ELSE Render(file.name, now, st, cat.groups, notifications)
     IN  /\ stats' = st
         /\ categorized' = cat
         /\ IF page.raised
              THEN /\ pc' = "crashed"
                   /\ UNCHANGED <<html_content, html_file, outfile, stderr>>
              ELSE /\ pc' = "generated"
                   /\ html_content' = page.html
                   /\ html_file' = IF disk = "ok" THEN Str(OutputPath)
                                   ELSE Null
                   /\ outfile' =
                        IF disk = "open_fails" THEN outfile
                        ELSE [exists |-> TRUE, path |-> OutputPath,
                              complete |-> disk = "ok",
                              content |-> IF disk = "ok" THEN page.html
                                          ELSE <<>>]
                   /\ stderr' = IF disk = "ok" THEN stderr
                                ELSE Append(stderr, "write_error")
  /\ UNCHANGED <<argv, file, disk, now, data, results, notifications,
                 exitStatus>>

\* main exiting with status 0 whatever generate_html returned
ExitMainAlwaysZero ==
  /\ pc = "generated"
  /\ pc' = "exited"
  /\ exitStatus' = 0
  /\ UNCHANGED <<argv, file, disk, now, data, results, notifications, stats,
                 categorized, html_content, html_file, outfile, stderr,
                 calls>>

\* "if html_file: sys.exit(0) else: sys.exit(1)"
ExitMain ==
  /\ pc = "generated"
  /\ pc' = "exited"
  /\ exitStatus' = IF Truthy(html_file) THEN 0 ELSE 1
  /\ UNCHANGED <<argv, file, disk, now, data, results, notifications, stats,
                 categorized, html_content, html_file, outfile, stderr,
                 calls>>

\* an exception that left generate_html ends main: traceback, status 1
Crash ==
  /\ pc = "crashed"
  /\ pc' = "exited"
  /\ exitStatus' = 1
  /\ stderr' = Append(stderr, "traceback")
  /\ UNCHANGED <<argv, file, disk, now, data, results, notifications, stats,
                 categorized, html_content, html_file, outfile, calls>>

Next ==
  \/ Usage
  \/ LoadSarif
  \/ ExitLoadFailed
  \/ GenerateHtml
  \/ ExitMain
  \/ Crash

Spec == Init /\ [][Next]_vars

-----------------------------------------------------------------------------
(* What the claims speak of, read off the loaded document itself *)

Called(method) == \E i \in 1..Len(calls) : calls[i] = method

\* get_statistics has returned to generate_html
StatsReturned == Called("generate_html") /\ ~stats.raised

\* generate_html has built the whole page
PageBuilt ==
  /\ Called("generate_html")
  /\ pc \in {"generated", "exited"}
  /\ \A i \in 1..Len(stderr) : stderr[i] # "traceback"

Findings == IF results.t = "list" THEN results.v ELSE <<>>

Has(r, k) == r.t = "obj" /\ k \in DOMAIN r.v

LevelMissing(r) == ~Has(r, "level")

LevelIs(r, lv) == Has(r, "level") /\ r.v.level = Str(lv)

\* the level is present and is none of error, warning, note
LevelOther(r) ==
  Has(r, "level") /\ r.v.level \notin {Str(LvError), Str(LvWarning), Str(LvNote)}

\* the level is missing or is a string
LevelIsText(r) == Has(r, "level") => r.v.level.t = "str"

CountWhere(P(_)) == Cardinality({i \in 1..Len(Findings) : P(Findings[i])})

IsError(r) == LevelIs(r, LvError)

IsWarning(r) == LevelIs(r, LvWarning)

IsNote(r) == LevelIs(r, LvNote)

\* the count by_level holds for a raw level, 0 when it has no such key
ByLevel(level) ==
  IF \E i \in 1..Len(stats.by_level) : stats.by_level[i].key = level
    THEN stats.by_level[CHOOSE i \in 1..Len(stats.by_level) :
                          stats.by_level[i].key = level].count
    ELSE 0

-----------------------------------------------------------------------------
(* C1: for a loaded document with N findings, get_statistics returns       *)
(* total = N, and errors + warnings + notes + the number of findings whose *)
(* level is none of error/warning/note is N                                *)
C1_TotalIsSum ==
  StatsReturned =>
    /\ stats.total = Len(Findings)
    /\ stats.errors + stats.warnings + stats.notes + CountWhere(LevelOther)
         = Len(Findings)

C1_Witness ==
  /\ StatsReturned
  /\ stats.total >= 3
  /\ CountWhere(LevelOther) >= 1
  /\ CountWhere(LevelMissing) >= 1
  /\ CountWhere(IsError) >= 1

(* C2 as claimed: every finding whose level is missing or is none of      *)
(* error/warning/note is counted in warnings, so that errors + warnings +  *)
(* notes = total, and its raw level is counted under its own by_level key  *)
C2_OtherCountsAsWarning ==
  (StatsReturned /\ \A i \in 1..Len(Findings) : LevelIsText(Findings[i])) =>
    /\ stats.warnings = CountWhere(IsWarning) + CountWhere(LevelMissing)
                        + CountWhere(LevelOther)
    /\ stats.errors + stats.warnings + stats.notes = stats.total
    /\ \A i \in 1..Len(Findings) :
         LevelOther(Findings[i]) => ByLevel(Findings[i].v.level) >= 1

(* C2 amended: a finding with no level is counted in warnings; a finding   *)
(* whose level is none of error/warning/note is counted in none of errors, *)
(* warnings, notes, so that their sum is total minus the number of such    *)
(* findings; its raw level is counted under its own by_level key           *)
C2_OnlyMissingCountsAsWarning ==
  StatsReturned =>
    /\ stats.warnings = CountWhere(IsWarning) + CountWhere(LevelMissing)
    /\ stats.errors = CountWhere(IsError)
    /\ stats.notes = CountWhere(IsNote)
    /\ stats.errors + stats.warnings + stats.notes
         = stats.total - CountWhere(LevelOther)
    /\ \A i \in 1..Len(Findings) :
         LevelOther(Findings[i]) =>
           ByLevel(Findings[i].v.level)
             = Cardinality({k \in 1..Len(Findings) :
                              Has(Findings[k], "level")
                              /\ Findings[k].v.level = Findings[i].v.level})
    /\ ByLevel(Str(LvWarning)) = stats.warnings

C2_Witness ==
  /\ StatsReturned
  /\ CountWhere(LevelOther) >= 2
  /\ CountWhere(LevelMissing) >= 1
  /\ stats.warnings = 1
  /\ stats.total = 3

-----------------------------------------------------------------------------
(* C3: every text taken from the document and placed in the report,        *)
(* location line and column values included, went through escape_html, so  *)
(* no markup character of the input reaches the report                     *)
C3_NoUnescapedText ==
  PageBuilt =>
    \A i \in 1..Len(html_content) :
      \A k \in 1..Len(html_content[i].args) :
        \A c \in 1..Len(html_content[i].args[k]) :
          html_content[i].args[k][c] \notin {"<", ">", "\"", "'"}

\* level and ruleId are missing or strings, tags are missing or a list
PlainLevelRuleTags(r) ==
  /\ LevelIsText(r)
  /\ Has(r, "ruleId") => r.v.ruleId.t = "str"
  /\ (Has(r, "properties") /\ Has(r.v.properties, "tags")) =>
       r.v.properties.v.tags.t = "list"

(* C4: no malformed or partly filled finding of a loaded document makes    *)
(* get_statistics, categorize_results, get_location_info or generate_html  *)
(* raise: the report is still produced                                     *)
C4_NeverRaises ==
  (\A i \in 1..Len(Findings) : PlainLevelRuleTags(Findings[i])) =>
    /\ pc # "crashed"
    /\ Called("generate_html") => ~stats.raised /\ ~categorized.raised
    /\ \A i \in 1..Len(stderr) : stderr[i] # "traceback"

-----------------------------------------------------------------------------
\* the URI of the finding's first location, Null when it has none
RawUri(r) ==
  IF /\ Has(r, "locations")
     /\ r.v.locations.t = "list"
     /\ Len(r.v.locations.v) > 0
     /\ Has(r.v.locations.v[1], "physicalLocation")
     /\ Has(r.v.locations.v[1].v.physicalLocation, "artifactLocation")
     /\ Has(r.v.locations.v[1].v.physicalLocation.v.artifactLocation, "uri")
    THEN LET uri == r.v.locations.v[1].v.physicalLocation.v.artifactLocation.v.uri
         IN  IF uri.t = "str" /\ uri.v # <<>> THEN uri ELSE Null
    ELSE Null

\* the non-empty URIs of the findings' first locations
RawUris == {RawUri(Findings[i]) : i \in 1..Len(Findings)} \ {Null}

Occurrences(uri) == Cardinality({i \in 1..Len(Findings) : RawUri(Findings[i]) = uri})

FirstSeen(uri) ==
  CHOOSE i \in 1..Len(Findings) :
    /\ RawUri(Findings[i]) = uri
    /\ \A k \in 1..(i - 1) : RawUri(Findings[k]) # uri

\* the rows of the file-summary table, in the order of the report
FileRows == SelectSeq(html_content, LAMBDA piece : piece.frag = "file_row")

\* the file a row shows
RowUri(row) == CHOOSE uri \in RawUris : HtmlEscape(uri.v) = row.args[1]

(* C5: the rows of the file-summary table are ordered by occurrence count, *)
(* largest first, and files of equal count are in the order in which they  *)
(* were first seen in the findings                                         *)
C5_RowsByCountThenFirstSeen ==
  PageBuilt =>
    /\ Len(FileRows) = Cardinality(RawUris)
    /\ \A i \in 1..Len(FileRows) :
         /\ \E uri \in RawUris : HtmlEscape(uri.v) = FileRows[i].args[1]
         /\ FileRows[i].args[2] = Digits(Occurrences(RowUri(FileRows[i])))
    /\ \A i, j \in 1..Len(FileRows) :
         i < j =>
           LET a == RowUri(FileRows[i])
               b == RowUri(FileRows[j])
           IN  \/ Occurrences(a) > Occurrences(b)
               \/ /\ Occurrences(a) = Occurrences(b)
                  /\ FirstSeen(a) < FirstSeen(b)

\* two files tied at count 2, the second of them seen first at position 1
C5_Witness ==
  /\ PageBuilt
  /\ Len(FileRows) = 2
  /\ FileRows[1].args = <<FileB, <<"2">>>>
  /\ FileRows[2].args = <<FileA, <<"2">>>>
  /\ RawUri(Findings[1]) = Str(FileB)
  /\ RawUri(Findings[4]) = Str(FileB)

(* C6: the files statistic is the number of distinct (non-empty) URIs of   *)
(* first locations; a finding with no location adds to neither the file    *)
(* set nor by_file; a finding increments at most one by_file entry, the    *)
(* one of its first location's URI, never that of a later location         *)
C6_FilesAreFirstUris ==
  StatsReturned =>
    /\ stats.files = Cardinality(RawUris)
    /\ {stats.by_file[i].key : i \in 1..Len(stats.by_file)} = RawUris
    /\ \A i \in 1..Len(stats.by_file) :
         /\ stats.by_file[i].count = Occurrences(stats.by_file[i].key)
         /\ \A k \in 1..Len(stats.by_file) :
              stats.by_file[k].key = stats.by_file[i].key => k = i

\* a finding with two locations, one with none, one whose first has no URI
C6_Witness ==
  /\ StatsReturned
  /\ stats.files = 1
  /\ stats.by_file = <<[key |-> Str(FileA), count |-> 2]>>
  /\ \E i \in 1..Len(Findings) :
       /\ RawUri(Findings[i]) = Str(FileA)
       /\ Len(Findings[i].v.locations.v) = 2
  /\ \E i \in 1..Len(Findings) : ~Has(Findings[i], "locations")
  /\ \E i \in 1..Len(Findings) :
       /\ Has(Findings[i], "locations")
       /\ Len(Findings[i].v.locations.v) = 2
       /\ RawUri(Findings[i]) = Null

-----------------------------------------------------------------------------
Printed(diagnostic) == \E i \in 1..Len(stderr) : stderr[i] = diagnostic

\* load_sarif has returned True
LoadSucceeded == Called("load_sarif") /\ ~Printed("load_error")

(* C7: when the input file cannot be read or is not JSON, load_sarif       *)
(* prints a diagnostic and returns False with no exception escaping, main  *)
(* exits with a non-zero status, generate_html is never invoked and no     *)
(* output file is opened or written                                        *)
C7_LoadFailureStops ==
  (file.content.t \in {"unreadable", "notjson"} /\ Called("load_sarif")) =>
    /\ pc \in {"load_failed", "exited"}
    /\ stderr = <<"load_error">>
    /\ ~Called("generate_html")
    /\ outfile = NoFile
    /\ html_content = <<>>
    /\ pc = "exited" => exitStatus = 1

C7_Witness ==
  /\ file.content.t = "notjson"
  /\ Len(argv) = 3
  /\ pc = "exited"
  /\ exitStatus = 1
  /\ calls = <<"load_sarif">>

(* C8: main exits with status 0 exactly when the load succeeded and the    *)
(* report was written; the status is non-zero after a load failure and      *)
(* after a failure to open or write the output file, which generate_html   *)
(* catches, returning None                                                 *)
C8_ZeroIffWritten ==
  pc = "exited" =>
    /\ exitStatus \in {0, 1}
    /\ exitStatus = 0 <=>
         /\ LoadSucceeded
         /\ PageBuilt
         /\ outfile.exists /\ outfile.complete
         /\ outfile.content = html_content
    /\ Printed("load_error") => exitStatus = 1
    /\ (PageBuilt /\ disk # "ok") =>
         /\ html_file = Null
         /\ Printed("write_error")
         /\ exitStatus = 1

C8_Witness ==
  /\ pc = "exited"
  /\ LoadSucceeded
  /\ PageBuilt
  /\ disk = "write_fails"
  /\ outfile.exists /\ ~outfile.complete
  /\ exitStatus = 1

-----------------------------------------------------------------------------
\* a finding with no level, no ruleId and no location
Bare(r) ==
  /\ ~Has(r, "level")
  /\ ~Has(r, "ruleId")
  /\ ~Has(r, "locations") \/ r.v.locations = EmptyList

ShownAsError(r) == LevelIs(r, LvError)

ShownAsWarning(r) == LevelMissing(r) \/ LevelIs(r, LvWarning)

ShownAsNote(r) == LevelIs(r, LvNote)

\* the findings in the order of their entries in the report
Shown ==
  SelectSeq(Findings, ShownAsError) \o SelectSeq(Findings, ShownAsWarning)
  \o SelectSeq(Findings, ShownAsNote)

Heads == SelectSeq(html_content, LAMBDA piece : piece.frag = "result_head")

Locations == SelectSeq(html_content, LAMBDA piece : piece.frag = "result_location")

(* C9: a finding with no level, no ruleId and no locations (or an empty    *)
(* locations list) is put in the warning group, counted in warnings, shown *)
(* with rule 'unknown', and get_location_info gives file 'unknown', lines  *)
(* and columns '?' and an empty snippet for it, without raising            *)
C9_BareFindingDefaults ==
  /\ StatsReturned =>
       /\ \A i \in 1..Len(Findings) :
            Bare(Findings[i]) => get_location_info(Findings[i]) = LocDefaults
       /\ ~categorized.raised
       /\ SelectSeq(CatGet(categorized.groups, Str(LvWarning)), Bare)
            = SelectSeq(Findings, Bare)
       /\ \A g \in 1..Len(categorized.groups) :
            categorized.groups[g].key # Str(LvWarning) =>
              SelectSeq(categorized.groups[g].items, Bare) = <<>>
       /\ stats.warnings - CountWhere(Bare)
            = Cardinality({i \in 1..Len(Findings) :
                             ShownAsWarning(Findings[i]) /\ ~Bare(Findings[i])})
  /\ PageBuilt =>
       /\ Len(Heads) = Len(Shown)
       /\ Len(Locations) = Len(Shown)
       /\ \A k \in 1..Len(Shown) :
            Bare(Shown[k]) =>
              /\ Heads[k].args[1] = LvWarning
              /\ Heads[k].args[3] = Unknown
              /\ Locations[k].args = <<Unknown, QMark, QMark>>

C9_Witness ==
  /\ PageBuilt
  /\ Len(Findings) = 3
  /\ Findings[1] = EmptyObj
  /\ ShownAsError(Findings[2])
  /\ Findings[3] = Obj([locations |-> EmptyList])
  /\ stats.warnings = 2
  /\ Heads[3].args = <<LvWarning, <<>>, Unknown>>

-----------------------------------------------------------------------------
Doc == file.content.v

IsDocument == file.content.t = "json" /\ Doc.t = "obj"

\* the document has no runs key or an empty runs list
NoRuns == IsDocument /\ (~Has(Doc, "runs") \/ Doc.v.runs = EmptyList)

\* the document's runs is a list that starts with an object
HasFirstRun ==
  /\ IsDocument
  /\ Has(Doc, "runs")
  /\ Doc.v.runs.t = "list"
  /\ Len(Doc.v.runs.v) > 0
  /\ Doc.v.runs.v[1].t = "obj"

FirstRun == Doc.v.runs.v[1]

(* C10: loading a document whose runs is empty or absent succeeds, leaves  *)
(* results and notifications empty, and get_statistics then returns total, *)
(* errors, warnings, notes, files and rules all 0; when runs is non-empty, *)
(* results and notifications are those of runs[0], whatever later runs hold *)
C10_FirstRunOnly ==
  /\ (NoRuns /\ Called("load_sarif")) =>
       /\ LoadSucceeded
       /\ pc \notin {"load_failed", "crashed"}
       /\ ~Printed("traceback")
       /\ results = EmptyList
       /\ notifications = EmptyList
       /\ Called("generate_html") =>
            /\ ~stats.raised
            /\ stats.total = 0 /\ stats.errors = 0 /\ stats.warnings = 0
            /\ stats.notes = 0 /\ stats.files = 0 /\ stats.rules = 0
  /\ (HasFirstRun /\ LoadSucceeded) =>
       /\ results = IF Has(FirstRun, "results") THEN FirstRun.v.results
                    ELSE EmptyList
       /\ notifications =
            IF Has(FirstRun, "toolExecutionNotifications")
              THEN FirstRun.v.toolExecutionNotifications
              ELSE EmptyList

C10_Witness ==
  /\ IsDocument
  /\ Has(Doc, "runs")
  /\ Doc.v.runs = EmptyList
  /\ pc = "exited"
  /\ Called("generate_html")
  /\ stats.total = 0
  /\ outfile.complete
  /\ exitStatus = 0

-----------------------------------------------------------------------------
\* the key of a finding's group: its level, 'warning' when it has none
GroupKey(r) == IF Has(r, "level") THEN r.v.level ELSE Str(LvWarning)

\* categorize_results has returned to generate_html
Categorized == StatsReturned /\ ~categorized.raised

Groups == categorized.groups

\* the results the loaded document holds in its first run
LoadedResults ==
  IF HasFirstRun /\ Has(FirstRun, "results") THEN FirstRun.v.results
  ELSE EmptyList

(* C11: categorize_results is a stable partition of the findings: every    *)
(* finding is in exactly one group, the one keyed by its level ('warning'  *)
(* when it has none); each group keeps the findings' original order; the   *)
(* groups error, warning, note exist even when empty; any other level has  *)
(* a group of its own keyed by that level; the findings are not modified   *)
C11_StablePartition ==
  Categorized =>
    /\ Len(Groups) >= 3
    /\ Groups[1].key = Str(LvError)
    /\ Groups[2].key = Str(LvWarning)
    /\ Groups[3].key = Str(LvNote)
    /\ \A g, h \in 1..Len(Groups) : Groups[g].key = Groups[h].key => g = h
    /\ \A g \in 1..Len(Groups) :
         /\ Groups[g].items
              = SelectSeq(Findings, LAMBDA r : GroupKey(r) = Groups[g].key)
         /\ g > 3 => Groups[g].items # <<>>
    /\ \A i \in 1..Len(Findings) :
         \E g \in 1..Len(Groups) : Groups[g].key = GroupKey(Findings[i])
    /\ results = LoadedResults

\* two different findings share the warning group, a level 'info' has its own
C11_Witness ==
  /\ Categorized
  /\ Len(Findings) = 4
  /\ Len(Groups) = 4
  /\ Groups[1].items = <<>>
  /\ Groups[2].items = <<EmptyObj, WithLevel(LvWarning)>>
  /\ Groups[4].key = Str(LvOther)
  /\ Len(Groups[4].items) = 2
  /\ Findings[1] = WithLevel(LvOther)
  /\ Findings[2] = EmptyObj

-----------------------------------------------------------------------------
Notifs == IF notifications.t = "list" THEN notifications.v ELSE <<>>

Mark(name, level) == [frag |-> name, level |-> level]

\* the pieces that open or close a block or start a finding's entry
BlockFrags ==
  {"head", "notifications_open", "notifications_close", "section_open",
   "section_close", "result_head", "table_open", "table_close", "footer"}

\* the report reduced to those pieces, each with the level it is written for
Outline ==
  LET marks == SelectSeq(html_content, LAMBDA piece : piece.frag \in BlockFrags)
  IN  [i \in 1..Len(marks) |->
         Mark(marks[i].frag,
              IF marks[i].frag \in {"section_open", "result_head"}
                THEN marks[i].args[1] ELSE <<>>)]

\* the block of one level as the claim describes it, nothing when empty
ExpectedBlock(level, shown) ==
  IF shown = <<>> THEN <<>>
  ELSE <<Mark("section_open", level)>>
       \o [i \in 1..Len(shown) |-> Mark("result_head", level)]
       \o <<Mark("section_close", <<>>)>>

ExpectedOutline ==
  <<Mark("head", <<>>)>>
  \o (IF Notifs # <<>>
        THEN <<Mark("notifications_open", <<>>),
               Mark("notifications_close", <<>>)>>
        ELSE <<>>)
  \o ExpectedBlock(LvError, SelectSeq(Findings, ShownAsError))
  \o ExpectedBlock(LvWarning, SelectSeq(Findings, ShownAsWarning))
  \o ExpectedBlock(LvNote, SelectSeq(Findings, ShownAsNote))
  \o (IF RawUris # {}
        THEN <<Mark("table_open", <<>>), Mark("table_close", <<>>)>>
        ELSE <<>>)
  \o <<Mark("footer", <<>>)>>

\* the rule an entry shows for a finding whose ruleId is a string or missing
ShownRule(r) == IF Has(r, "ruleId") THEN HtmlEscape(r.v.ruleId.v) ELSE Unknown

\* the finding has a first-location URI and that location has no region
UriOnly(r) ==
  /\ RawUri(r) # Null
  /\ ~Has(r.v.locations.v[1].v.physicalLocation, "region")

SectionCounts ==
  LET opens == SelectSeq(html_content, LAMBDA piece : piece.frag = "section_open")
  IN  [i \in 1..Len(opens) |-> opens[i].args[2]]

ExpectedCounts ==
  LET blocks == <<SelectSeq(Findings, ShownAsError),
                  SelectSeq(Findings, ShownAsWarning),
                  SelectSeq(Findings, ShownAsNote)>>
      filled == SelectSeq(blocks, LAMBDA b : b # <<>>)
  IN  [i \in 1..Len(filled) |-> Digits(Len(filled[i]))]

(* C12: the finding entries of the report are the error findings, then the *)
(* warning findings (those with no level included), then the note          *)
(* findings, each block in input order and present only when it is not     *)
(* empty; a finding of any other level has no entry but is counted in      *)
(* total; the notifications block comes before these blocks and only when  *)
(* there is a notification; the file-summary table comes after them        *)
C12_ReportOrder ==
  PageBuilt =>
    /\ Outline = ExpectedOutline
    /\ SectionCounts = ExpectedCounts
    /\ Len(Heads) = Len(Findings) - CountWhere(LevelOther)
    /\ stats.total = Len(Findings)
    /\ Len(SelectSeq(html_content,
                     LAMBDA piece : piece.frag = "notification_item"))
         = Len(Notifs)
    /\ \A k \in 1..Len(Shown) :
         /\ PlainLevelRuleTags(Shown[k]) => Heads[k].args[3] = ShownRule(Shown[k])
         /\ UriOnly(Shown[k]) =>
              Locations[k].args[1] = HtmlEscape(RawUri(Shown[k]).v)

\* notifications, an error, two warnings, a note, a level 'info' and files
C12_Witness ==
  /\ PageBuilt
  /\ Notifs # <<>>
  /\ Len(Findings) = 5
  /\ CountWhere(LevelOther) = 1
  /\ stats.total = 5
  /\ Len(Heads) = 4
  /\ Heads[1].args[1] = LvError
  /\ Heads[2].args = <<LvWarning, <<>>, Plain>>
  /\ Heads[3].args = <<LvWarning, <<>>, Unknown>>
  /\ Heads[4].args[1] = LvNote
  /\ Locations[4].args[1] = FileB
  /\ Len(FileRows) = 2

====
